---- MODULE Spec2Model ----
(***************************************************************************)
(* A model of the prompt-batch pipeline of inference/run_batch.py:         *)
(* provider call with bounded retry, CSV parsing and validation, batch     *)
(* directory allocation, manifest writing and the downstream invocation.   *)
(*                                                                         *)
(* Text is modelled as a sequence of atoms.  An atom is either one         *)
(* character that matters to the code (comma, double quote, line feed,     *)
(* carriage return, space, hyphen, a digit) or an indivisible piece of     *)
(* text without such characters ("prompt", "output_path", ".mp4", ...).    *)
(***************************************************************************)
EXTENDS Integers, Sequences, FiniteSets, TLC

\* ------------------------------------------------------------------ text

COMMA == ","
QUOTE == "\""
LF    == "\n"
CR    == "\r"
SP    == " "

\* The characters str.strip() removes (those of them the model has).
Whitespace == {SP, LF, CR}

RECURSIVE LStrip(_)
LStrip(s) ==
    IF s # <<>> /\ Head(s) \in Whitespace THEN LStrip(Tail(s)) ELSE s

RECURSIVE RStrip(_)
RStrip(s) ==
    IF s # <<>> /\ s[Len(s)] \in Whitespace
    THEN RStrip(SubSeq(s, 1, Len(s) - 1))
    ELSE s

\* str.strip()
Strip(s) == RStrip(LStrip(s))

\* str.endswith('.mp4')
EndsWithMp4(s) == s # <<>> /\ s[Len(s)] = ".mp4"

\* ------------------------------------------------------------ csv.reader

\* The end-of-line event the reader feeds its state machine after each line.
EOL == "EOL"

\* Reader state at the start of a record (parse_reset).
ParseReset == [state |-> "START_RECORD", field |-> <<>>, fields |-> <<>>,
               error |-> FALSE]

\* parse_save_field: the field under construction is appended to the record.
SaveField(st, next) ==
    [st EXCEPT !.fields = Append(st.fields, st.field), !.field = <<>>,
               !.state = next]

AddChar(st, c, next) ==
    [st EXCEPT !.field = Append(st.field, c), !.state = next]

AfterNewline(c) == IF c = EOL THEN "START_RECORD" ELSE "EAT_CRNL"

\* The START_FIELD case of parse_process_char (excel dialect: delimiter ',',
\* quotechar '"', doublequote, no escapechar, not strict).
StartField(st, c) ==
    IF c \in {LF, CR, EOL} THEN SaveField(st, AfterNewline(c))
    ELSE IF c = QUOTE THEN [st EXCEPT !.state = "IN_QUOTED_FIELD"]
    ELSE IF c = COMMA THEN SaveField(st, "START_FIELD")
    ELSE AddChar(st, c, "IN_FIELD")

\* parse_process_char: one character (or EOL) through the state machine.
ParseProcessChar(st, c) ==
    CASE st.state = "START_RECORD" ->
            IF c = EOL THEN st
            ELSE IF c \in {LF, CR} THEN [st EXCEPT !.state = "EAT_CRNL"]
            ELSE StartField(st, c)
      [] st.state = "START_FIELD" -> StartField(st, c)
      [] st.state = "IN_FIELD" ->
            IF c \in {LF, CR, EOL} THEN SaveField(st, AfterNewline(c))
            ELSE IF c = COMMA THEN SaveField(st, "START_FIELD")
            ELSE AddChar(st, c, "IN_FIELD")
      [] st.state = "IN_QUOTED_FIELD" ->
            IF c = EOL THEN st
            ELSE IF c = QUOTE THEN [st EXCEPT !.state = "QUOTE_IN_QUOTED_FIELD"]
            ELSE AddChar(st, c, "IN_QUOTED_FIELD")
      [] st.state = "QUOTE_IN_QUOTED_FIELD" ->
            IF c = QUOTE THEN AddChar(st, c, "IN_QUOTED_FIELD")
            ELSE IF c = COMMA THEN SaveField(st, "START_FIELD")
            ELSE IF c \in {LF, CR, EOL} THEN SaveField(st, AfterNewline(c))
            ELSE AddChar(st, c, "IN_FIELD")
      [] st.state = "EAT_CRNL" ->
            IF c \in {LF, CR} THEN st
            ELSE IF c = EOL THEN [st EXCEPT !.state = "START_RECORD"]
            ELSE [st EXCEPT !.error = TRUE]

\* The reader state after character c of a line and, when c ends the line,
\* after the EOL that follows it.
FeedChar(st, c, lineEnds) ==
    LET st1 == ParseProcessChar(st, c)
    IN  IF lineEnds /\ ~st1.error THEN ParseProcessChar(st1, EOL) ELSE st1

\* The reading before the first character: no record yet.
ReadStart == [st |-> ParseReset, rows |-> <<>>]

\* The reading after character i of s.  The text is read line by line (a
\* line ends after LF or at the end of the text): each line's characters and
\* then EOL go through the state machine, and a record is complete when the
\* machine is back in START_RECORD.  Nothing is read after an error.
ReadChar(rd, s, i) ==
    IF rd.st.error THEN rd
    ELSE LET lineEnds == s[i] = LF \/ i = Len(s)
             st2 == FeedChar(rd.st, s[i], lineEnds)
         IN  IF lineEnds /\ ~st2.error /\ st2.state = "START_RECORD"
             THEN [st |-> ParseReset, rows |-> Append(rd.rows, st2.fields)]
             ELSE [st |-> st2, rows |-> rd.rows]

\* The reading after characters lo..hi of s, from reading rd: the first half
\* is read, its outcome is computed once, and the second half goes on from
\* it.
RECURSIVE ReadChars(_, _, _, _)
ReadChars(s, lo, hi, rd) ==
    IF lo > hi THEN rd
    ELSE IF lo = hi THEN ReadChar(rd, s, lo)
    ELSE LET mid == (lo + hi) \div 2
         IN  CHOOSE out \in {ReadChars(s, mid + 1, hi, left) :
                                left \in {ReadChars(s, lo, mid, rd)}} : TRUE

\* list(reader) over io.StringIO(s).  At the end of the text an open quoted
\* field is saved as it is.
ReadRows(s) ==
    LET Finish(rd) ==
            IF rd.st.error THEN [error |-> TRUE, rows |-> <<>>]
            ELSE IF rd.st.state = "START_RECORD" THEN [error |-> FALSE, rows |-> rd.rows]
            ELSE [error |-> FALSE,
                  rows |-> Append(rd.rows, SaveField(rd.st, "START_RECORD").fields)]
    IN  CHOOSE out \in {Finish(rd) : rd \in {ReadChars(s, 1, Len(s), ReadStart)}} : TRUE

\* parse_csv: the rows, or no row at all when the reader raises.
parse_csv(csv_string) ==
    LET r == ReadRows(csv_string)
    IN  IF r.error THEN <<>> ELSE r.rows

\* ------------------------------------------------------------ validation

HeaderRow == << <<"prompt">>, <<"output_path">> >>

\* The last row that fails a per-row check instead of the first, 0 if none.
RECURSIVE LastBadRow(_, _)
LastBadRow(prompts, i) ==
    IF i > Len(prompts) THEN 0
    ELSE LET later == LastBadRow(prompts, i + 1)
         IN  IF later # 0 THEN later
             ELSE IF Len(prompts[i]) # 2 \/ ~EndsWithMp4(prompts[i][2]) THEN i
             ELSE 0

\* The first row of prompts (1-based) that fails a per-row check, 0 if none.
RECURSIVE FirstBadRow(_, _)
FirstBadRow(prompts, i) ==
    IF i > Len(prompts) THEN 0
    ELSE IF Len(prompts[i]) # 2 \/ ~EndsWithMp4(prompts[i][2]) THEN i
    ELSE FirstBadRow(prompts, i + 1)

\* The per-row check of one row: column count first, then the suffix.
RowError(row) ==
    IF Len(row) # 2 THEN "ColumnCount"
    ELSE IF ~EndsWithMp4(row[2]) THEN "Suffix"
    ELSE "ok"

\* Header reconciliation: the first row is the header only when it is
\* exactly ['prompt', 'output_path'].
HasHeader(csv_content) == csv_content[1] = HeaderRow
Headers(csv_content) == IF HasHeader(csv_content) THEN csv_content[1] ELSE HeaderRow
\* The header row kept among the candidate rows.
PromptsKeepHeader(csv_content) == csv_content
Prompts(csv_content) == IF HasHeader(csv_content) THEN Tail(csv_content) ELSE csv_content

\* A count check that lets fewer rows than asked for through.
CountAtMost(prompts, num_prompts) == Len(prompts) <= num_prompts

\* Whether the candidate row count is the one asked for.
CountMatches(prompts, num_prompts) == Len(prompts) = num_prompts

\* Validation with the per-row checks made before the row-count check.
ValidateRowsFirst(csv, num_prompts) ==
    LET csv_content == parse_csv(Strip(csv))
        Failed(e, i) == [status |-> e, row |-> i, headers |-> <<>>, prompts |-> <<>>]
    IN  IF Len(csv_content) < 1 THEN Failed("EmptyOutput", 0)
        ELSE LET headers == Headers(csv_content)
                 prompts == Prompts(csv_content)
                 bad     == FirstBadRow(prompts, 1)
             IN  IF bad # 0 THEN Failed(RowError(prompts[bad]), bad)
                 ELSE IF ~CountMatches(prompts, num_prompts) THEN Failed("RowCountMismatch", 0)
                 ELSE [status |-> "ok", row |-> 0, headers |-> headers,
                       prompts |-> prompts]

\* Validation without the check for an empty row list: csv_content[0] then
\* raises IndexError, which the except clause reports instead.
ValidateNoEmptyCheck(csv, num_prompts) ==
    LET csv_content == parse_csv(Strip(csv))
        Failed(e, i) == [status |-> e, row |-> i, headers |-> <<>>, prompts |-> <<>>]
    IN  IF Len(csv_content) < 1 THEN Failed("IndexError", 0)
        ELSE LET headers == Headers(csv_content)
                 prompts == Prompts(csv_content)
                 bad     == FirstBadRow(prompts, 1)
             IN  IF ~CountMatches(prompts, num_prompts) THEN Failed("RowCountMismatch", 0)
                 ELSE IF bad # 0 THEN Failed(RowError(prompts[bad]), bad)
                 ELSE [status |-> "ok", row |-> 0, headers |-> headers,
                       prompts |-> prompts]

\* The try block of main that parses and validates message.csv: the outcome
\* (ok or the error raised), and on success the headers and the rows.
Validate(csv, num_prompts) ==
    LET csv_content == parse_csv(Strip(csv))
        Failed(e, i) == [status |-> e, row |-> i, headers |-> <<>>, prompts |-> <<>>]
    IN  IF Len(csv_content) < 1 THEN Failed("EmptyOutput", 0)
        ELSE LET headers == Headers(csv_content)
                 prompts == Prompts(csv_content)
                 bad     == FirstBadRow(prompts, 1)
             IN  IF ~CountMatches(prompts, num_prompts) THEN Failed("RowCountMismatch", 0)
                 ELSE IF bad # 0 THEN Failed(RowError(prompts[bad]), bad)
                 ELSE [status |-> "ok", row |-> 0, headers |-> headers,
                       prompts |-> prompts]

\* ------------------------------------------------------- batch allocation

DigitChars == <<"0", "1", "2", "3", "4", "5", "6", "7", "8", "9">>
Digits == {DigitChars[i] : i \in 1..10}
DigitVal(c) == (CHOOSE i \in 1..10 : DigitChars[i] = c) - 1

\* str(n) for n >= 0
RECURSIVE IntToStr(_)
IntToStr(n) ==
    IF n < 10 THEN <<DigitChars[n + 1]>>
    ELSE IntToStr(n \div 10) \o <<DigitChars[(n % 10) + 1]>>

\* int(s) for a non-empty text of digits
RECURSIVE StrToInt(_)
StrToInt(s) ==
    IF Len(s) = 1 THEN DigitVal(s[1])
    ELSE 10 * StrToInt(SubSeq(s, 1, Len(s) - 1)) + DigitVal(s[Len(s)])

\* d.split("-")[0]
RECURSIVE BeforeHyphen(_)
BeforeHyphen(d) ==
    IF d = <<>> \/ Head(d) = "-" THEN <<>>
    ELSE <<Head(d)>> \o BeforeHyphen(Tail(d))

\* s.replace("batch", "")
RemoveBatch(s) == SelectSeq(s, LAMBDA c : c # "batch")

\* s.isdigit()
IsDigit(s) == s # <<>> /\ \A i \in 1..Len(s) : s[i] \in Digits

\* d.startswith("batch")
StartsWithBatch(d) == d # <<>> /\ d[1] = "batch"

\* The filter of the batch_numbers comprehension.
IsNumbered(d) == StartsWithBatch(d) /\ IsDigit(RemoveBatch(BeforeHyphen(d)))

\* The element of the batch_numbers comprehension.
BatchNumber(d) == StrToInt(RemoveBatch(BeforeHyphen(d)))

BatchNumbers(batches) == {BatchNumber(d) : d \in {e \in batches : IsNumbered(e)}}

\* max(numbers, default=0)
MaxDefault0(numbers) ==
    IF numbers = {} THEN 0 ELSE CHOOSE m \in numbers : \A k \in numbers : k <= m

\* The greatest number taken again instead of the one after it.
NextNumberNoIncrement(batches) == MaxDefault0(BatchNumbers(batches))

\* current_n
NextNumber(batches) == MaxDefault0(BatchNumbers(batches)) + 1

\* args.theme.replace(" ", "_")
Sanitize(theme) == [i \in 1..Len(theme) |-> IF theme[i] = SP THEN "_" ELSE theme[i]]

\* A directory name without the hyphen the number is later split off at.
DirNameNoHyphen(n, theme) == <<"batch">> \o IntToStr(n) \o Sanitize(theme)

\* The name of out_dir inside ./batches: batch{current_n}-{sanitized_theme}
DirName(n, theme) == <<"batch">> \o IntToStr(n) \o <<"-">> \o Sanitize(theme)

\* out_dir itself
OutDir(name) == <<"./batches/">> \o name

\* ------------------------------------------------------- manifest writing

\* os.path.join(a, b): b alone when b is absolute.
PathJoin(a, b) ==
    IF b # <<>> /\ b[1] = "/" THEN b
    ELSE IF a # <<>> /\ a[Len(a)] = "/" THEN a \o b
    ELSE a \o <<"/">> \o b

\* A field as csv.writer writes it under QUOTE_ALL: in double quotes, every
\* double quote of the field doubled.
RECURSIVE DoubleQuotes(_)
DoubleQuotes(f) ==
    IF f = <<>> THEN <<>>
    ELSE (IF Head(f) = QUOTE THEN <<QUOTE, QUOTE>> ELSE <<Head(f)>>)
         \o DoubleQuotes(Tail(f))

\* A writer that leaves the double quotes of a field as they are.
QuoteFieldNoDoubling(f) == <<QUOTE>> \o f \o <<QUOTE>>

QuoteField(f) == <<QUOTE>> \o DoubleQuotes(f) \o <<QUOTE>>

\* writer.writerow(row): the quoted fields joined by commas, then "\r\n".
RECURSIVE JoinFields(_)
JoinFields(row) ==
    IF row = <<>> THEN <<>>
    ELSE IF Len(row) = 1 THEN QuoteField(row[1])
    ELSE QuoteField(row[1]) \o <<COMMA>> \o JoinFields(Tail(row))

WriteRowText(row) == JoinFields(row) \o <<CR, LF>>

\* The k-th row main writes (k = 1: the headers; then one per prompt, its
\* output path joined under out_dir).
ManifestRow(headers, prompts, name, k) ==
    IF k = 1 THEN headers
    ELSE <<prompts[k - 1][1], PathJoin(OutDir(name), prompts[k - 1][2])>>

\* A write of text at offset pos of a file: what lies there is overwritten,
\* and a gap before pos (the file was truncated meanwhile) reads as NUL.
NUL == "\\0"
WriteAt(content, pos, text) ==
    LET n == IF Len(content) > pos + Len(text) THEN Len(content) ELSE pos + Len(text)
    IN  [i \in 1..n |->
            IF i > pos /\ i <= pos + Len(text) THEN text[i - pos]
            ELSE IF i <= Len(content) THEN content[i]
            ELSE NUL]

\* ------------------------------------------------------------- the state

VARIABLES
    run,       \* per invocation of main(): its position and local variables
    dirs,      \* the names in ./batches that are directories
    files,     \* the names in ./batches that are not directories
    manifest,  \* directory name -> the text of its prompts.csv, where one exists
    player     \* the playlist player: its files, its stores, its last callback

vars == <<run, dirs, files, manifest, player>>

\* ------------------------------------------------------ the playlist player

\* The playlists: the directories get_playlists() finds in VIDEO_DIR.
Playlists == {<<"batch", "1", "-", "x">>, <<"batch", "3", "-", "y">>}

\* No playlist (None), no index (None), no source.
NoPlaylist == <<>>
NoIndex == -1
NoSrc == <<>>

\* File names as (stem, suffix).  Stems lists the stems in the order in
\* which sorted() puts the names.
Stems == <<"a", "b", "c", "d">>
FileNames == {<<"a", ".avi">>, <<"b", ".mp4">>, <<"c", ".mov">>, <<"d", ".txt">>}
VideoSuffixes == {".mp4", ".avi", ".mov"}

StemRank(f) == CHOOSE i \in 1..Len(Stems) : Stems[i] = f[1]

\* sorted(names)
RECURSIVE Sorted(_)
Sorted(names) ==
    IF names = {} THEN <<>>
    ELSE LET first == CHOOSE f \in names :
                          \A g \in names \ {f} : StemRank(f) < StemRank(g)
         IN  <<first>> \o Sorted(names \ {first})

\* get_videos(playlist), given the listing of the playlist's directory.
get_videos(listing) == Sorted({video \in listing : video[2] \in VideoSuffixes})

\* What update_video_player gives back: dash.no_update for both outputs, a
\* source and an index, or an exception.
NoUpdate == [kind |-> "no_update", src |-> NoSrc, index |-> NoIndex, error |-> "none"]
Update(src, index) == [kind |-> "update", src |-> src, index |-> index, error |-> "none"]
Raised(error) == [kind |-> "raised", src |-> NoSrc, index |-> NoIndex, error |-> error]

\* The body of update_video_player; library gives each playlist's listing.
update_video_player(trigger_id, selected_playlist, current_playlist, current_index, library) ==
    IF trigger_id = "" THEN NoUpdate
    ELSE IF trigger_id = "playlist-dropdown" /\ selected_playlist # NoPlaylist THEN
        LET videos == get_videos(library[selected_playlist])
        IN  IF videos # <<>> THEN Update(<<selected_playlist, videos[1]>>, 0)
            ELSE NoUpdate
    ELSE IF trigger_id \in {"next-video-button", "video-player"}
            /\ current_playlist # NoPlaylist THEN
        LET videos == get_videos(library[current_playlist])
        IN  IF current_index = NoIndex
            THEN IF videos = <<>> THEN Raised("IndexError")
                 ELSE Update(<<current_playlist, videos[1]>>, 0)
            ELSE IF Len(videos) = 0 THEN Raised("ZeroDivisionError")
            ELSE LET index == (current_index + 1) % Len(videos)
                 IN  Update(<<current_playlist, videos[index + 1]>>, index)
    ELSE NoUpdate

\* Before update_video_player is first called.
NotCalled ==
    [kind |-> "none", src |-> NoSrc, index |-> NoIndex, error |-> "none",
     trigger |-> "", playlist |-> NoPlaylist, previous |-> NoIndex]

\* The player not in use.
PlayerOff ==
    [library |-> [p \in Playlists |-> {}],
     selected |-> NoPlaylist, trigger |-> "",
     pending_list |-> FALSE, pending_player |-> FALSE,
     current_playlist |-> NoPlaylist, current_index |-> NoIndex,
     src |-> NoSrc, returned |-> NotCalled]

\* The page after a call of update_video_player by trigger_id: the outputs
\* are set when the callback returned values, and left alone when it
\* returned no_update or raised.
AfterCall(pl, trigger_id) ==
    LET out  == update_video_player(trigger_id, pl.selected, pl.current_playlist,
                                    pl.current_index, pl.library)
        used == IF trigger_id = "playlist-dropdown" THEN pl.selected
                ELSE pl.current_playlist
    IN  [pl EXCEPT !.src = IF out.kind = "update" THEN out.src ELSE @,
                   !.current_index = IF out.kind = "update" THEN out.index ELSE @,
                   !.returned = [kind |-> out.kind, src |-> out.src,
                                 index |-> out.index, error |-> out.error,
                                 trigger |-> trigger_id, playlist |-> used,
                                 previous |-> pl.current_index]]

\* The user picks a playlist in the dropdown, or clears it: both callbacks
\* with Input('playlist-dropdown', 'value') are to run.
SelectPlaylist ==
    /\ ~player.pending_list /\ ~player.pending_player
    /\ \E p \in Playlists \cup {NoPlaylist} :
          /\ p # player.selected
          /\ player' = [player EXCEPT !.selected = p, !.trigger = "playlist-dropdown",
                                      !.pending_list = TRUE, !.pending_player = TRUE]
    /\ UNCHANGED <<run, dirs, files, manifest>>

\* update_video_list: the current-playlist store is set.
UpdateVideoList ==
    /\ player.pending_list
    /\ player' = [player EXCEPT !.pending_list = FALSE,
                                !.current_playlist = player.selected]
    /\ UNCHANGED <<run, dirs, files, manifest>>

\* update_video_player, called at page load or for a change of the dropdown.
UpdateVideoPlayer ==
    /\ player.pending_player
    /\ player' = [AfterCall(player, player.trigger) EXCEPT !.pending_player = FALSE]
    /\ UNCHANGED <<run, dirs, files, manifest>>

\* update_video_player, called for a click on Next Video or for the end of
\* the video shown.
NextOrEnded ==
    /\ ~player.pending_player
    /\ \E trigger_id \in {"next-video-button", "video-player"} :
          /\ trigger_id = "video-player" => player.src # NoSrc
          /\ player' = AfterCall(player, trigger_id)
    /\ UNCHANGED <<run, dirs, files, manifest>>

\* The invocations of main() that may be in progress at the same time.
Runs == {"r1", "r2"}

\* stop_after_attempt(3)
StopAfterAttempt == 3

\* sys.exit(1), which is also the exit status of an uncaught exception
ExitFailure == 1
\* the exit status of argparse on a usage error
ArgparseErrorExit == 2
ExitSuccess == 0

\* Bounds of the inputs.
MaxNumPrompts == 2
MaxLines == 3
MaxShort == 3

NumPromptsArgs == 1..MaxNumPrompts
Themes == {<<"x">>, <<"y", SP, "y">>}

\* Structured outputs the provider may return (message.csv).
BodyHeader1 == <<"prompt", COMMA, "output_path", LF,
                 QUOTE, "a", QUOTE, COMMA, "a", ".mp4">>
BodyNoHeader2 == <<QUOTE, "a", COMMA, QUOTE, QUOTE, "b", QUOTE, COMMA, "a", ".mp4", LF,
                   "b", COMMA, "/", "b", ".mp4">>
BodyBadSuffix == <<"a", COMMA, "a", ".avi">>
Bodies == {BodyHeader1, BodyNoHeader2, BodyBadSuffix}

\* Directory names that may exist before the first run.
Batch1x   == <<"batch", "1", "-", "x">>
Batch3y   == <<"batch", "3", "-", "y">>
NotABatch == <<"nota", "batch">>

NoResult == [status |-> "none", row |-> 0, headers |-> <<>>, prompts |-> <<>>]

\* A run before main() is entered.
NotStarted ==
    [pc |-> "start", num_prompts |-> 0, theme |-> <<>>, calls |-> 0,
     has_message |-> FALSE, message |-> <<>>, result |-> NoResult,
     waits |-> <<>>, batches |-> {}, current_n |-> 0, out_dir |-> <<>>,
     created |-> FALSE, made |-> 0, dirs_at_create |-> {},
     opened |-> FALSE, pos |-> 0, written |-> 0, closed |-> FALSE,
     invoked |-> 0, status |-> 0, code |-> -1, failure |-> "none"]

Init ==
    /\ run = [r \in Runs |-> NotStarted]
    /\ dirs \in {{}, {Batch1x, Batch3y, NotABatch}}
    /\ files = {}
    /\ manifest = <<>>
    /\ player = PlayerOff

\* The process ends with this exit status.
Exited(rr, code, why) == [rr EXCEPT !.pc = "exited", !.code = code, !.failure = why]

\* ----------------------------------------------------------- the actions

\* parser.parse_args(): the arguments, or a usage error.
ParseArgs(r) ==
    /\ run[r].pc = "start"
    /\ \/ \E n \in NumPromptsArgs, t \in Themes :
            run' = [run EXCEPT ![r].pc = "create_client",
                               ![r].num_prompts = n, ![r].theme = t]
       \/ run' = [run EXCEPT ![r] = Exited(@, ArgparseErrorExit, "args")]
    /\ UNCHANGED <<dirs, files, manifest, player>>

\* The exit status of main when the client cannot be created.
ClientFailureExit == ExitFailure

\* An except block without its sys.exit: main goes on to the generation.
ClientFailedFallsThrough(rr) == [rr EXCEPT !.pc = "generate", !.failure = "client"]

\* The except block of the client creation: the error is printed and the
\* process exits.
ClientFailed(rr) == Exited(rr, ClientFailureExit, "client")

\* Create client based on provider.
CreateClient(r) ==
    /\ run[r].pc = "create_client"
    /\ \/ run' = [run EXCEPT ![r].pc = "generate"]
       \/ run' = [run EXCEPT ![r] = ClientFailed(@)]
    /\ UNCHANGED <<dirs, files, manifest, player>>

\* stop_after_attempt(5): two attempts more.
RetryAfterFive(attempt) == attempt < 5

\* A stop condition that lets one attempt too many through.
RetryAfterOffByOne(attempt) == attempt <= StopAfterAttempt

\* tenacity's stop condition: whether another attempt follows a failed one.
RetryAfter(attempt) == attempt < StopAfterAttempt

\* wait_exponential(multiplier=1, min=4, max=10)
WaitMultiplier == 1
WaitMin == 4
WaitMax == 10

RECURSIVE Pow2(_)
Pow2(n) == IF n = 0 THEN 1 ELSE 2 * Pow2(n - 1)

Smaller(a, b) == IF a <= b THEN a ELSE b
Larger(a, b) == IF a >= b THEN a ELSE b

\* A backoff that starts at the minimum and doubles from there.
WaitDoubling(attempt) == Smaller(WaitMin * Pow2(attempt - 1), WaitMax)

\* tenacity's wait before the attempt that follows failed attempt number
\* attempt: multiplier * 2^(attempt - 1), clamped into [min, max].
WaitExponential(attempt) ==
    Larger(WaitMin, Smaller(WaitMultiplier * Pow2(attempt - 1), WaitMax))

\* One attempt of generate_prompts: the provider returns a result, or the
\* call raises, and then it is made again or the error reaches main.
ProviderCall(r) ==
    /\ run[r].pc = "generate"
    /\ LET attempt == run[r].calls + 1
       IN  \/ \E csv \in Bodies :
                run' = [run EXCEPT ![r].pc = "validate", ![r].calls = attempt,
                                   ![r].has_message = TRUE, ![r].message = csv]
           \/ /\ RetryAfter(attempt)
              /\ run' = [run EXCEPT ![r].calls = attempt,
                                    ![r].waits = Append(@, WaitExponential(attempt))]
           \/ /\ ~RetryAfter(attempt)
              /\ run' = [run EXCEPT ![r] = Exited([@ EXCEPT !.calls = attempt],
                                                  ExitFailure, "generation")]
    /\ UNCHANGED <<dirs, files, manifest, player>>

\* A validation failure that sends the run back to the provider.
ValidationRetried(rr, res) ==
    [rr EXCEPT !.result = res, !.pc = "generate", !.has_message = FALSE]

\* The except block of the validation: the error is printed and the process
\* exits.
ValidationFailed(rr, res) == Exited([rr EXCEPT !.result = res], ExitFailure, "validation")

\* Parse and validate CSV.
ValidateCsv(r) ==
    /\ run[r].pc = "validate"
    /\ LET res == Validate(run[r].message, run[r].num_prompts)
       IN  IF res.status = "ok"
           THEN run' = [run EXCEPT ![r].pc = "listdir", ![r].result = res]
           ELSE run' = [run EXCEPT ![r] = ValidationFailed(@, res)]
    /\ UNCHANGED <<dirs, files, manifest, player>>

\* os.listdir and the computation of out_dir; os.listdir may raise.
ListBatches(r) ==
    /\ run[r].pc = "listdir"
    /\ \/ LET n == NextNumber(dirs)
          IN  run' = [run EXCEPT ![r].pc = "makedirs", ![r].batches = dirs,
                                 ![r].current_n = n,
                                 ![r].out_dir = DirName(n, run[r].theme)]
       \/ run' = [run EXCEPT ![r] = Exited(@, ExitFailure, "listdir")]
    /\ UNCHANGED <<dirs, files, manifest, player>>

\* os.makedirs(out_dir, exist_ok=True): raises when the name is taken by a
\* file, or on a filesystem fault.
MakeDirs(r) ==
    /\ run[r].pc = "makedirs"
    /\ \/ /\ run[r].out_dir \notin files
          /\ dirs' = dirs \cup {run[r].out_dir}
          /\ run' = [run EXCEPT ![r].pc = "open", ![r].created = TRUE,
                                ![r].made = @ + 1,
                                ![r].dirs_at_create = dirs]
       \/ /\ run' = [run EXCEPT ![r] = Exited(@, ExitFailure, "makedirs")]
          /\ UNCHANGED dirs
    /\ UNCHANGED <<files, manifest, player>>

\* The manifest with the text of directory d's prompts.csv set to text.
WithManifest(d, text) ==
    [e \in (DOMAIN manifest) \cup {d} |-> IF e = d THEN text ELSE manifest[e]]

\* open(csv_path, 'w'): the file is created, or truncated if it exists.
OpenManifest(r) ==
    /\ run[r].pc = "open"
    /\ \/ /\ manifest' = WithManifest(run[r].out_dir, <<>>)
          /\ run' = [run EXCEPT ![r].pc = "write", ![r].opened = TRUE]
       \/ /\ run' = [run EXCEPT ![r] = Exited(@, ExitFailure, "open")]
          /\ UNCHANGED manifest
    /\ UNCHANGED <<dirs, files, player>>

\* subprocess.run without check=True: a non-zero exit goes unnoticed.
DownstreamExitUnchecked(status) == ExitSuccess

\* The exit status of main when the generation script fails.
DownstreamExit(status) == IF status # 0 THEN ExitFailure ELSE ExitSuccess

\* A with block left one row early.
LastRowOffByOne(k, prompts) == k >= Len(prompts)

\* Whether row k (the header is row 1) is the last writerow of the with
\* block.
LastRow(k, prompts) == k = Len(prompts) + 1

\* One writer.writerow of the with block; the file is closed after the last
\* one.  A failed write ends the process with what was written left in place.
WriteRow(r) ==
    /\ run[r].pc = "write"
    /\ LET k    == run[r].written + 1
           res  == run[r].result
           text == WriteRowText(ManifestRow(res.headers, res.prompts, run[r].out_dir, k))
           last == LastRow(k, res.prompts)
       IN  \/ /\ manifest' = WithManifest(run[r].out_dir,
                                WriteAt(manifest[run[r].out_dir], run[r].pos, text))
              /\ run' = [run EXCEPT ![r].written = k, ![r].pos = @ + Len(text),
                                    ![r].closed = last,
                                    ![r].pc = IF last THEN "downstream" ELSE "write"]
           \/ /\ run' = [run EXCEPT ![r] = Exited(@, ExitFailure, "write")]
              /\ UNCHANGED manifest
    /\ UNCHANGED <<dirs, files, player>>

\* subprocess.run([... "--prompts", csv_path], check=True)
RunDownstream(r) ==
    /\ run[r].pc = "downstream"
    /\ \E status \in {0, 1} :
          run' = [run EXCEPT ![r] = Exited([@ EXCEPT !.invoked = @ + 1, !.status = status],
                                           DownstreamExit(status),
                                           IF status # 0 THEN "downstream" ELSE "none")]
    /\ UNCHANGED <<dirs, files, manifest, player>>

Step(r) ==
    \/ ParseArgs(r)
    \/ CreateClient(r)
    \/ ProviderCall(r)
    \/ ValidateCsv(r)
    \/ ListBatches(r)
    \/ MakeDirs(r)
    \/ OpenManifest(r)
    \/ WriteRow(r)
    \/ RunDownstream(r)

\* Invocations of main() running at the same time against ./batches.
Next == \E r \in Runs : Step(r)

Spec == Init /\ [][Next]_vars

\* ------------------------------------------- one run at a time (SpecSeq)

\* Directory listings of ./batches a run may find.
Batch12x     == <<"batch", "1", "2", "-", "x">>
Batch09x     == <<"batch", "0", "9", "-", "x">>
Batch9       == <<"batch", "9">>
Batch3Batchy == <<"batch", "3", "batch", "-", "y">>
BatchHyphen3 == <<"batch", "-", "3">>
BatchX3y     == <<"batch", "x", "3", "-", "y">>
XBatch7      == <<"x", "-", "batch", "7">>

InitialListings ==
    { {}, {Batch1x, Batch3y, NotABatch}, {Batch12x, Batch09x},
      {Batch9, BatchX3y, XBatch7}, {Batch3Batchy, BatchHyphen3} }

\* Names in ./batches that may be plain files.
InitialFiles == { {}, {Batch1x} }

InitSeq ==
    /\ run = [r \in Runs |-> NotStarted]
    /\ dirs \in InitialListings
    /\ files \in {f \in InitialFiles : f \cap dirs = {}}
    /\ manifest = <<>>
    /\ player = PlayerOff

\* No other invocation of main() is in progress.
Alone(r) == \A q \in Runs \ {r} : run[q].pc \in {"start", "exited"}

NextSeq ==
    \E r \in Runs :
        \/ Alone(r) /\ ParseArgs(r)
        \/ Alone(r) /\ CreateClient(r)
        \/ Alone(r) /\ ProviderCall(r)
        \/ Alone(r) /\ ValidateCsv(r)
        \/ Alone(r) /\ ListBatches(r)
        \/ Alone(r) /\ MakeDirs(r)
        \/ Alone(r) /\ OpenManifest(r)
        \/ Alone(r) /\ WriteRow(r)
        \/ Alone(r) /\ RunDownstream(r)

SpecSeq == InitSeq /\ [][NextSeq]_vars

\* ------------------------------- validation of any output (SpecValidate)

\* join of the lines, each but the last followed by the line terminator
RECURSIVE JoinLines(_, _)
JoinLines(lines, term) ==
    IF lines = <<>> THEN <<>>
    ELSE IF Len(lines) = 1 THEN lines[1]
    ELSE lines[1] \o term \o JoinLines(Tail(lines), term)

SeqsUpTo(S, n) == UNION {[1..k -> S] : k \in 0..n}

SampleLines ==
    { <<"prompt", COMMA, "output_path">>,
      <<QUOTE, "a", QUOTE, COMMA, "a", ".mp4">>,
      <<"b", COMMA, "b", ".mp4">>,
      <<"a", COMMA, "a", ".avi">>,
      <<"a", ".mp4">>,
      <<"a", COMMA, "a", ".mp4", COMMA, "a", ".mp4">>,
      <<QUOTE, "a", COMMA, "a", QUOTE, COMMA, "a", ".mp4">>,
      <<>> }

LineTerminators == {<<LF>>, <<CR, LF>>, <<CR>>}

ShortAlphabet == {"a", ".mp4", COMMA, QUOTE, LF, CR, SP}

\* The texts validation is tried on: every text of at most MaxShort atoms,
\* and every text of at most MaxLines sample lines.
RawInputs ==
    SeqsUpTo(ShortAlphabet, MaxShort)
    \cup {JoinLines(ls, t) : ls \in SeqsUpTo(SampleLines, MaxLines), t \in LineTerminators}

ExpectedCounts == (-1)..MaxLines

\* A run whose provider call has just returned csv.
Returned(csv, n) ==
    [NotStarted EXCEPT !.pc = "validate", !.num_prompts = n, !.theme = <<"x">>,
                       !.calls = 1, !.has_message = TRUE, !.message = csv]

InitValidate ==
    /\ \E csv \in RawInputs, n \in ExpectedCounts :
          run = [r \in Runs |-> IF r = "r1" THEN Returned(csv, n) ELSE NotStarted]
    /\ dirs = {}
    /\ files = {}
    /\ manifest = <<>>
    /\ player = PlayerOff

NextValidate == \E r \in Runs : ValidateCsv(r)

SpecValidate == InitValidate /\ [][NextValidate]_vars

\* ---------------------------- writing of any validated batch (SpecWrite)

PromptAlphabet == {"a", COMMA, QUOTE, LF, CR, SP}

\* Prompts for the rows of a longer batch.
SamplePrompts ==
    { <<"a">>,
      <<"a", COMMA, QUOTE, LF, "b">>,
      <<QUOTE, QUOTE>>,
      <<>> }

OutputPaths == { <<"a", ".mp4">>, <<"/", "b", ".mp4">>, <<"a", SP, "b", ".mp4">> }

\* The batches written: every single row whose prompt has at most MaxShort
\* atoms, and every batch of 2 to MaxNumPrompts rows of sample prompts.
Batches ==
    {<< <<p, o>> >> : p \in SeqsUpTo(PromptAlphabet, MaxShort), o \in OutputPaths}
    \cup UNION {[1..k -> {<<p, o>> : p \in SamplePrompts, o \in OutputPaths}] :
                   k \in 2..MaxNumPrompts}

\* A text the provider may return for a batch: one line per row, the prompt
\* in double quotes with its double quotes doubled, no header.
RECURSIVE ProviderQuoted(_)
ProviderQuoted(f) ==
    IF f = <<>> THEN <<>>
    ELSE (IF Head(f) = QUOTE THEN <<QUOTE, QUOTE>> ELSE <<Head(f)>>)
         \o ProviderQuoted(Tail(f))

ProviderLine(row) == <<QUOTE>> \o ProviderQuoted(row[1]) \o <<QUOTE, COMMA>> \o row[2]

ProviderText(batch) == JoinLines([i \in 1..Len(batch) |-> ProviderLine(batch[i])], <<LF>>)

\* A run that has validated csv and made its batch directory batch1-x in
\* an empty ./batches.
Made(csv, n) ==
    [Returned(csv, n) EXCEPT !.pc = "open", !.result = Validate(csv, n),
                             !.current_n = 1, !.out_dir = DirName(1, <<"x">>),
                             !.created = TRUE, !.made = 1]

InitWrite ==
    /\ \E batch \in Batches :
          /\ Validate(ProviderText(batch), Len(batch)).status = "ok"
          /\ run = [r \in Runs |-> IF r = "r1"
                                   THEN Made(ProviderText(batch), Len(batch))
                                   ELSE NotStarted]
    /\ dirs = {DirName(1, <<"x">>)}
    /\ files = {}
    /\ manifest = <<>>
    /\ player = PlayerOff

NextWrite ==
    \E r \in Runs :
        \/ OpenManifest(r)
        \/ WriteRow(r)

SpecWrite == InitWrite /\ [][NextWrite]_vars

\* ------------------------------------------ a run under fairness (SpecFair)

\* A run from its start, all alone: the other run came to its end before, at
\* client creation.
InitFair ==
    /\ run = [r \in Runs |->
                 IF r = "r1" THEN NotStarted
                 ELSE ClientFailed([NotStarted EXCEPT !.num_prompts = 1, !.theme = <<"x">>])]
    /\ dirs \in {{}, {Batch1x, Batch3y, NotABatch}}
    /\ files = {}
    /\ manifest = <<>>
    /\ player = PlayerOff

\* Every step of a run is a blocking call that returns or raises: a run that
\* can take a step eventually takes one.
SpecFair == InitFair /\ [][Next]_vars /\ \A r \in Runs : WF_vars(Step(r))

\* ------------------------------------------ the playlist player (SpecPlayer)

\* The listings of the playlists' directories.
Libraries == [Playlists -> SUBSET FileNames]

\* The page is loaded: both callbacks are to run, with no trigger.
InitPlayer ==
    /\ run = [r \in Runs |-> NotStarted]
    /\ dirs = Playlists
    /\ files = {}
    /\ manifest = <<>>
    /\ \E library \in Libraries :
          player = [PlayerOff EXCEPT !.library = library,
                                     !.pending_list = TRUE, !.pending_player = TRUE]

NextPlayer ==
    \/ SelectPlaylist
    \/ UpdateVideoList
    \/ UpdateVideoPlayer
    \/ NextOrEnded

SpecPlayer == InitPlayer /\ [][NextPlayer]_vars

\* ============================================================ the claims

\* What the claims say of a file or a row, stated apart from the code.
WellFormedRow(row) == Len(row) = 2 /\ Len(row[2]) > 0 /\ row[2][Len(row[2])] = ".mp4"

\* text is a manifest of n prompts: read back, it is the header row followed
\* by exactly n rows of 2 fields, each output_path ending in .mp4.
CompleteManifest(text, n) ==
    LET rows == parse_csv(text)
    IN  /\ Len(rows) = n + 1
        /\ rows[1] = << <<"prompt">>, <<"output_path">> >>
        /\ \A i \in 2..Len(rows) : WellFormedRow(rows[i])

\* C1: whenever a run of main() has exited, with any exit code, its batch
\* directory holds no prompts.csv or a complete one (the header and exactly
\* num_prompts well-formed rows), and a run that failed client creation,
\* generation or validation has opened no manifest.
C1_AllOrNothing ==
    \A r \in Runs :
        run[r].pc = "exited" =>
            /\ run[r].failure \in {"client", "generation", "validation"} => ~run[r].opened
            /\ run[r].created =>
                  \/ run[r].out_dir \notin DOMAIN manifest
                  \/ CompleteManifest(manifest[run[r].out_dir], run[r].num_prompts)

\* C2: generate_prompts calls the provider at most 3 times and stops at the
\* first call that does not raise: a run holding a result has left the retry
\* loop with that result and makes no further call (also when the result came
\* from the third call), and a run whose 3 calls all raised has exited with
\* code 1, holding no result, having validated and written nothing.
C2_State ==
    \A r \in Runs :
        /\ run[r].calls <= 3
        /\ run[r].pc = "generate" => run[r].calls < 3 /\ ~run[r].has_message
        /\ run[r].has_message =>
              /\ run[r].calls \in 1..3
              /\ run[r].pc \notin {"start", "create_client", "generate"}
              /\ run[r].failure # "generation"
        /\ (run[r].calls = 3 /\ ~run[r].has_message) =>
              /\ run[r].pc = "exited" /\ run[r].code = 1
              /\ run[r].failure = "generation"
              /\ run[r].result.status = "none"
              /\ ~run[r].created /\ ~run[r].opened /\ run[r].invoked = 0
        /\ run[r].failure = "generation" => run[r].calls = 3 /\ ~run[r].has_message

C2_Step ==
    \A r \in Runs :
        /\ run[r].has_message =>
              /\ run'[r].calls = run[r].calls
              /\ run'[r].has_message /\ run'[r].message = run[r].message
        /\ (~run[r].has_message /\ run'[r].has_message) =>
              /\ run'[r].calls = run[r].calls + 1
              /\ run'[r].pc = "validate"

C2_RetryThreeTimes == [] C2_State /\ [][C2_Step]_vars

\* C2 witness: one run got its result from the third call, the other's three
\* calls all raised.
C2_Witness ==
    \E r, q \in Runs :
        /\ run[r].has_message /\ run[r].calls = 3 /\ run[r].pc = "validate"
        /\ run[q].failure = "generation" /\ run[q].pc = "exited"

\* Every stage of a run succeeded, read off what the run holds.
AllSucceeded(rr) ==
    /\ rr.has_message
    /\ rr.result.status = "ok"
    /\ rr.created
    /\ rr.closed /\ rr.written = rr.num_prompts + 1
    /\ rr.invoked = 1 /\ rr.status = 0

V == run["r1"]
VRows == parse_csv(Strip(V.message))
VRaises == ReadRows(Strip(V.message)).error
VDone == V.pc # "validate"

\* The candidate rows as the claims describe them: all rows but a first row
\* that is exactly the header.
IsHeader(row) == row = << <<"prompt">>, <<"output_path">> >>
Candidates(rows) ==
    IF IsHeader(rows[1]) THEN [i \in 1..(Len(rows) - 1) |-> rows[i + 1]] ELSE rows
Offending(rows) == {i \in 1..Len(rows) : ~WellFormedRow(rows[i])}
Least(S) == CHOOSE i \in S : \A j \in S : i <= j

\* C4: a body whose first row is exactly the header, followed by N rows of 2
\* fields with the second ending in .mp4, validates for expected count N: the
\* run goes on, holding exactly those N rows in order and the body's header.
C4_ValidBodyAccepted ==
    (VDone /\ Len(VRows) >= 1 /\ IsHeader(VRows[1])
       /\ (\A i \in 2..Len(VRows) : WellFormedRow(VRows[i]))
       /\ V.num_prompts = Len(VRows) - 1)
    => /\ V.result.status = "ok"
       /\ V.pc = "listdir"
       /\ V.result.headers = VRows[1]
       /\ Len(V.result.prompts) = V.num_prompts
       /\ \A i \in 1..V.num_prompts : V.result.prompts[i] = VRows[i + 1]

\* C4 witness: a header and two well-formed rows, two asked for, accepted.
C4_Witness ==
    /\ VDone /\ Len(VRows) = 3 /\ IsHeader(VRows[1]) /\ V.num_prompts = 2
    /\ VRows[2] # VRows[3]
    /\ V.result.status = "ok" /\ Len(V.result.prompts) = 2

\* C5: when the first parsed row is not exactly the header, the header is
\* synthesized and every parsed row, the first included, is a candidate:
\* validation succeeds only if the number of parsed rows is the expected
\* count, and then hands on all the rows under the synthesized header.
C5_MissingHeader ==
    (VDone /\ Len(VRows) >= 1 /\ ~IsHeader(VRows[1]))
    => /\ V.result.status = "ok" =>
             /\ Len(VRows) = V.num_prompts
             /\ V.result.prompts = VRows
             /\ V.result.headers = << <<"prompt">>, <<"output_path">> >>
       /\ Len(VRows) # V.num_prompts => V.result.status = "RowCountMismatch"
       /\ V.result.status \in {"ColumnCount", "Suffix"} =>
             V.result.row = Least(Offending(VRows))

\* C5 witness: two rows without a header, two asked for, accepted.
C5_Witness ==
    /\ VDone /\ Len(VRows) = 2 /\ ~IsHeader(VRows[1]) /\ V.num_prompts = 2
    /\ V.result.status = "ok" /\ V.result.prompts = VRows

\* C6: when at least one row was parsed and the number of candidate rows
\* differs from the expected count, validation fails with the row-count
\* error, whatever the rows hold: no per-row check comes first.
C6_RowCountFirst ==
    (VDone /\ Len(VRows) >= 1 /\ Len(Candidates(VRows)) # V.num_prompts)
    => /\ V.result.status = "RowCountMismatch"
       /\ V.pc = "exited" /\ V.code = 1

\* C6 witness: three asked for, a header and two data rows, one of them with
\* a bad suffix: the row-count error.
C6_Witness ==
    /\ VDone /\ Len(VRows) = 3 /\ IsHeader(VRows[1]) /\ V.num_prompts = 3
    /\ Offending(Candidates(VRows)) # {}
    /\ V.result.status = "RowCountMismatch"

\* C7: when the candidate row count is the expected one, validation fails
\* exactly when some candidate row has not 2 fields or a second field not
\* ending in .mp4; the error is that of the first such row, the column count
\* before the suffix.
C7_RowChecks ==
    (VDone /\ Len(VRows) >= 1 /\ Len(Candidates(VRows)) = V.num_prompts)
    => LET rows == Candidates(VRows)
           bad  == Offending(rows)
       IN  /\ V.result.status = "ok" <=> bad = {}
           /\ bad # {} =>
                 /\ V.result.row = Least(bad)
                 /\ V.result.status =
                       IF Len(rows[Least(bad)]) # 2 THEN "ColumnCount" ELSE "Suffix"
                 /\ V.pc = "exited" /\ V.code = 1

\* C7 witness: the first offending row has a bad suffix and a later one a
\* wrong column count: the suffix error of the first is reported.
C7_Witness ==
    /\ VDone /\ Len(VRows) >= 1 /\ Len(Candidates(VRows)) = V.num_prompts
    /\ \E i, j \in Offending(Candidates(VRows)) :
          /\ i = Least(Offending(Candidates(VRows))) /\ i < j
          /\ Len(Candidates(VRows)[i]) = 2 /\ Len(Candidates(VRows)[j]) # 2
    /\ V.result.status = "Suffix"

\* C8: when the output is empty once stripped, or the reader cannot parse it,
\* parse_csv gives no row and validation fails with the empty-output error
\* for every expected count, 0 included.
C8_EmptyOrUnparsable ==
    (VDone /\ (Strip(V.message) = <<>> \/ VRaises))
    => /\ VRows = <<>>
       /\ V.result.status = "EmptyOutput"
       /\ V.pc = "exited" /\ V.code = 1

\* C8 witness: an output the reader raises on, with 0 rows asked for.
C8_Witness ==
    /\ VDone /\ VRaises /\ Strip(V.message) # <<>> /\ V.num_prompts = 0
    /\ V.result.status = "EmptyOutput"

\* ------------------------------------------------- allocation (C9, C10)

\* The sequence number of a directory name as the claims describe it: the
\* name starts with "batch", and what is left of its part before the first
\* hyphen once "batch" is taken out is a number.
FirstHyphen(d) ==
    IF \E i \in 1..Len(d) : d[i] = "-"
    THEN CHOOSE i \in 1..Len(d) : d[i] = "-" /\ \A j \in 1..(i - 1) : d[j] # "-"
    ELSE Len(d) + 1
NumberPart(d) == SelectSeq(SubSeq(d, 1, FirstHyphen(d) - 1), LAMBDA c : c # "batch")
DecimalDigits == {"0", "1", "2", "3", "4", "5", "6", "7", "8", "9"}
IsBatchDir(d) ==
    /\ Len(d) >= 1 /\ d[1] = "batch"
    /\ NumberPart(d) # <<>>
    /\ \A i \in 1..Len(NumberPart(d)) : NumberPart(d)[i] \in DecimalDigits
DigitOf(c) == CHOOSE v \in 0..9 : ToString(v) = c
RECURSIVE Decimal(_, _)
Decimal(s, acc) == IF s = <<>> THEN acc ELSE Decimal(Tail(s), 10 * acc + DigitOf(Head(s)))
SeqNo(d) == Decimal(NumberPart(d), 0)
SeqNos(names) == {SeqNo(d) : d \in {e \in names : IsBatchDir(e)}}
Greatest(S) == CHOOSE m \in S : \A k \in S : k <= m

\* C9: with no other run in progress, the sequence number of the directory a
\* run creates is 1 + the greatest number parsed from the directories that
\* exist when it is created (1 when none parses; other names and plain files
\* are ignored), so it is greater than the number of every batch directory
\* existing then; over {batch1-x, batch3-y, notabatch} it is 4.
C9_NextSequenceNumber ==
    \A r \in Runs :
        run[r].created =>
            LET existing == run[r].dirs_at_create
                nums     == SeqNos(existing)
            IN  /\ run[r].current_n = 1 + (IF nums = {} THEN 0 ELSE Greatest(nums))
                /\ \A k \in nums : k < run[r].current_n
                /\ run[r].out_dir \in dirs
                /\ IsBatchDir(run[r].out_dir)
                /\ SeqNo(run[r].out_dir) = run[r].current_n
                /\ existing = {<<"batch", "1", "-", "x">>, <<"batch", "3", "-", "y">>,
                               <<"nota", "batch">>} => run[r].current_n = 4

\* C9 witness: a run created batch 4 over {batch1-x, batch3-y, notabatch},
\* and the run after it created batch 5.
C9_Witness ==
    \E r, q \in Runs :
        /\ run[r].created /\ run[r].current_n = 4
        /\ run[r].dirs_at_create = {<<"batch", "1", "-", "x">>, <<"batch", "3", "-", "y">>,
                                    <<"nota", "batch">>}
        /\ run[q].created /\ run[q].current_n = 5
        /\ run[r].out_dir \in run[q].dirs_at_create

\* C10: two runs can hold the same sequence number, and only by the race: a
\* run that listed ./batches after the other had created its directory holds
\* a greater number, so equal numbers mean that each listed before the other
\* created.
C10_SameNumberOnlyByRace ==
    \A r, q \in Runs :
        (r # q /\ run[r].current_n > 0 /\ run[q].current_n > 0) =>
            /\ (run[q].created /\ run[q].out_dir \in run[r].batches) =>
                  run[r].current_n > run[q].current_n
            /\ run[r].current_n = run[q].current_n =>
                  /\ run[q].out_dir \notin run[r].batches
                  /\ run[r].out_dir \notin run[q].batches

\* C10 witness: both runs listed before either created, computed the same
\* number, and both went on to create their directory.
C10_Witness ==
    /\ run["r1"].created /\ run["r2"].created
    /\ run["r1"].current_n = run["r2"].current_n
    /\ run["r1"].out_dir # run["r2"].out_dir
    /\ run["r1"].batches = run["r2"].batches

\* C11: a manifest, once a run has written it out and closed it, is never
\* modified or overwritten afterwards, and no batch directory is ever
\* deleted, by any later step of that run or by any step of another run,
\* sequential or concurrent, of the same theme or of another.
C11_WriteOnce ==
    [][ /\ dirs \subseteq dirs'
        /\ \A r \in Runs :
              run[r].closed =>
                  /\ run[r].out_dir \in DOMAIN manifest'
                  /\ manifest'[run[r].out_dir] = manifest[run[r].out_dir] ]_vars

\* path names something below directory dir: it continues dir past a
\* separator and never steps back up.
Inside(path, dir) ==
    /\ Len(path) > Len(dir) + 1
    /\ SubSeq(path, 1, Len(dir) + 1) = dir \o <<"/">>
    /\ \A i \in 1..Len(path) : path[i] # ".."

\* C12: for every validated row, whatever its output_path (one starting
\* with a path separator included), the output_path in the manifest is the
\* batch directory path followed by the original output_path, so it lies
\* inside the batch directory and still ends in .mp4, and the prompt is
\* written unchanged.
C12_PathsInsideBatch ==
    \A r \in Runs :
        (run[r].closed /\ run[r].out_dir \in DOMAIN manifest) =>
            LET rows    == parse_csv(manifest[run[r].out_dir])
                base    == <<"./batches/">> \o run[r].out_dir
                prompts == run[r].result.prompts
            IN  /\ Len(rows) = Len(prompts) + 1
                /\ \A i \in 1..Len(prompts) :
                      /\ Len(rows[i + 1]) = 2
                      /\ rows[i + 1][1] = prompts[i][1]
                      /\ rows[i + 1][2] = base \o <<"/">> \o prompts[i][2]
                      /\ Inside(rows[i + 1][2], base)
                      /\ rows[i + 1][2][Len(rows[i + 1][2])] = ".mp4"

\* C13: the downstream generation process is invoked at most once per run
\* and never again after a non-zero exit, and only once the run has written
\* the whole manifest (the header and all num_prompts rows) and closed it;
\* the invocation changes nothing under ./batches, so after a non-zero exit
\* the batch directory and the manifest are still in place.
C13_State ==
    \A r \in Runs :
        /\ run[r].invoked <= 1
        /\ run[r].invoked = 1 =>
              /\ run[r].pc = "exited"
              /\ run[r].closed
              /\ run[r].written = run[r].num_prompts + 1
        /\ run[r].failure = "downstream" =>
              /\ run[r].invoked = 1 /\ run[r].status # 0 /\ run[r].code = 1
              /\ run[r].out_dir \in dirs
              /\ run[r].out_dir \in DOMAIN manifest

C13_Step ==
    \A r \in Runs :
        /\ run'[r].invoked >= run[r].invoked
        /\ run'[r].invoked > run[r].invoked =>
              /\ run[r].pc = "downstream" /\ run[r].invoked = 0
              /\ run[r].closed
              /\ run[r].written = run[r].num_prompts + 1
              /\ UNCHANGED <<dirs, files, manifest>>
        /\ run[r].invoked >= 1 => run'[r] = run[r]

C13_DownstreamOnce == [] C13_State /\ [][C13_Step]_vars

\* C13 witness: a run of 2 prompts whose downstream process exited non-zero;
\* its directory and its manifest are there.
C13_Witness ==
    \E r \in Runs :
        /\ run[r].pc = "exited" /\ run[r].failure = "downstream"
        /\ run[r].invoked = 1 /\ run[r].num_prompts = 2 /\ run[r].written = 3
        /\ run[r].out_dir \in dirs
        /\ run[r].out_dir \in DOMAIN manifest

\* C14: a validation failure is never retried: once a provider call has
\* returned a result the run makes no further provider call and keeps that
\* result, and the validation step that rejects the result is the step that
\* ends the run, with exit code 1.
C14_State ==
    \A r \in Runs :
        run[r].result.status \notin {"none", "ok"} =>
            /\ run[r].pc = "exited" /\ run[r].code = 1
            /\ run[r].failure = "validation"
            /\ run[r].has_message

C14_Step ==
    \A r \in Runs :
        /\ run[r].has_message =>
              /\ run'[r].has_message
              /\ run'[r].calls = run[r].calls
              /\ run'[r].message = run[r].message
        /\ (run[r].pc = "validate" /\ run'[r] # run[r] /\ run'[r].result.status # "ok") =>
              /\ run'[r].pc = "exited" /\ run'[r].code = 1
              /\ run'[r].failure = "validation"

C14_NoRetryOfValidation == [] C14_State /\ [][C14_Step]_vars

\* C14 witness: a run whose second provider call returned a result that
\* validation rejected has exited with code 1 after those 2 calls.
C14_Witness ==
    \E r \in Runs :
        /\ run[r].pc = "exited" /\ run[r].failure = "validation"
        /\ run[r].code = 1 /\ run[r].calls = 2
        /\ run[r].result.status = "Suffix"

\* C15 as stated: the wait after the first failed attempt is 4, each later
\* wait is the smaller of 10 and twice the wait before it, every wait lies
\* in [4, 10], and no wait follows the third failed attempt.
C15_WaitsDouble ==
    \A r \in Runs :
        LET w == run[r].waits
        IN  /\ Len(w) <= 2
            /\ Len(w) >= 1 => w[1] = 4
            /\ \A i \in 2..Len(w) :
                  w[i] = IF 2 * w[i - 1] < 10 THEN 2 * w[i - 1] ELSE 10
            /\ \A i \in 1..Len(w) : w[i] >= 4 /\ w[i] <= 10

\* C15: the wait after failed attempt k is 2^(k-1) raised to the minimum 4
\* and capped at 10, so the waits after the first and after the second
\* failed attempt are both 4; every wait lies in [4, 10]; one wait follows
\* each failed attempt but the third, which none follows.
C15_WaitsClamped ==
    \A r \in Runs :
        LET w == run[r].waits
            failed == IF run[r].has_message THEN run[r].calls - 1 ELSE run[r].calls
        IN  /\ Len(w) = (IF failed < 3 THEN failed ELSE 2)
            /\ \A i \in 1..Len(w) :
                  /\ w[i] = (IF 2^(i - 1) < 4 THEN 4
                             ELSE IF 2^(i - 1) > 10 THEN 10 ELSE 2^(i - 1))
                  /\ w[i] = 4
                  /\ w[i] >= 4 /\ w[i] <= 10

\* C15 witness: all 3 attempts of a run failed; it waited 4 and 4, and not
\* after the third.
C15_Witness ==
    \E r \in Runs :
        /\ run[r].failure = "generation" /\ run[r].calls = 3
        /\ run[r].waits = <<4, 4>>

\* C17: a run that fails at client creation, at generation or at validation
\* leaves ./batches as it was: none of its steps creates a directory or
\* writes a file, and it never invokes the downstream process; a run that
\* failed at client creation has made no provider call.
C17_State ==
    \A r \in Runs :
        /\ run[r].failure \in {"client", "generation", "validation"} =>
              /\ ~run[r].created /\ ~run[r].opened
              /\ run[r].written = 0 /\ run[r].invoked = 0
              /\ run[r].out_dir = <<>>
        /\ run[r].failure = "client" =>
              /\ run[r].calls = 0 /\ ~run[r].has_message
              /\ run[r].pc = "exited" /\ run[r].code = 1

C17_Step ==
    \A r \in Runs :
        (run'[r] # run[r] /\ run[r].pc \in {"start", "create_client", "generate", "validate"})
            => UNCHANGED <<dirs, files, manifest>>

C17_FailureLeavesNothing == [] C17_State /\ [][C17_Step]_vars

\* C17 witness: one run failed at client creation and the other at
\* validation, and ./batches is still empty.
C17_Witness ==
    /\ run["r1"].pc = "exited" /\ run["r1"].failure = "client"
    /\ run["r2"].pc = "exited" /\ run["r2"].failure = "validation"
    /\ run["r2"].calls = 1
    /\ dirs = {} /\ files = {} /\ manifest = <<>>

\* os.path.join of a directory and a path, as the claims mean it: the path
\* alone when it starts at the root, else the directory, a separator and
\* the path.
Joined(dir, path) ==
    IF path # <<>> /\ path[1] = "/" THEN path ELSE dir \o <<"/">> \o path

\* C16: for every validated batch, the manifest a run has written and
\* closed, read back with parse_csv, is the header row followed by the rows
\* [prompt, join(batch_dir, output_path)], field for field and in the order
\* written, whatever commas, quotes and newlines the prompts hold.
C16_RoundTrip ==
    \A r \in Runs :
        run[r].closed =>
            LET rows    == parse_csv(manifest[run[r].out_dir])
                base    == <<"./batches/">> \o run[r].out_dir
                prompts == run[r].result.prompts
            IN  rows = << << <<"prompt">>, <<"output_path">> >> >>
                       \o [i \in 1..Len(prompts) |->
                              <<prompts[i][1], Joined(base, prompts[i][2])>>]

\* C16 witness: a closed manifest of 2 different rows, the first prompt
\* holding a comma, a quote and a newline, the second path absolute.
C16_Witness ==
    \E r \in Runs :
        /\ run[r].closed
        /\ Len(run[r].result.prompts) = 2
        /\ run[r].result.prompts[1] = << <<"a", ",", "\"", "\n", "b">>, <<"a", ".mp4">> >>
        /\ run[r].result.prompts[2] = << <<"\"", "\"">>, <<"/", "b", ".mp4">> >>
        /\ Len(parse_csv(manifest[run[r].out_dir])) = 3

\* C18 as stated: provider calls and the downstream process always coming
\* back, every run of main() eventually exits with code 0 or 1, having made
\* at most 3 provider calls, created at most one batch directory and invoked
\* the downstream process at most once.
C18_ExitsZeroOrOne ==
    <>[](\A r \in Runs :
            /\ run[r].pc = "exited" /\ run[r].code \in {0, 1}
            /\ run[r].calls <= 3 /\ run[r].made <= 1 /\ run[r].invoked <= 1)

\* C18: provider calls and the downstream process always coming back, every
\* run of main() eventually exits, with code 0, 1 or (on a usage error of
\* the command line, before anything else is done) 2, having made at most 3
\* provider calls, created at most one batch directory and invoked the
\* downstream process at most once.
C18_Terminates ==
    <>[](\A r \in Runs :
            /\ run[r].pc = "exited" /\ run[r].code \in {0, 1, 2}
            /\ run[r].code = 2 =>
                  /\ run[r].failure = "args" /\ run[r].calls = 0
                  /\ run[r].made = 0 /\ run[r].invoked = 0
            /\ run[r].calls <= 3 /\ run[r].made <= 1 /\ run[r].invoked <= 1)

\* C18 witness: a run has exited with code 0 after 3 provider calls, one
\* directory made and one downstream invocation.
C18_Witness ==
    \E r \in Runs :
        /\ run[r].pc = "exited" /\ run[r].code = 0 /\ run[r].calls = 3
        /\ run[r].made = 1 /\ run[r].invoked = 1
        /\ run[r].out_dir \in dirs

\* C19: whatever playlist selections and next-video / video-ended events
\* came before, update_video_player never fails, also when the current
\* playlist holds no video, and it returns no update or an index i with
\* 0 <= i < the number of videos of the playlist and the source of the i-th
\* video in sorted order; a selection gives index 0, a next or ended event
\* the index after the stored one, back to 0 past the last video.
C19_PlayerNeverFails ==
    LET out    == player.returned
        videos == get_videos(player.library[out.playlist])
    IN  /\ out.kind # "raised"
        /\ out.kind = "update" =>
              /\ out.index >= 0 /\ out.index < Len(videos)
              /\ out.src = <<out.playlist, videos[out.index + 1]>>
              /\ out.trigger = "playlist-dropdown" => out.index = 0
              /\ out.trigger \in {"next-video-button", "video-player"} =>
                    out.index = (IF out.previous = NoIndex
                                    \/ out.previous + 1 >= Len(videos)
                                 THEN 0 ELSE out.previous + 1)

====
